---------------------------- MODULE Spec2Model ----------------------------
(***************************************************************************)
(* Model of the mini-language analyzer of src/work1/lexer.cpp: the         *)
(* tokenizer (tokenize, readIdentifierOrKeyword, readNumber, readOperator),*)
(* the driver (analyze, parse), the declaration validator                  *)
(* (parseDefinitionBody), the structural validator (parseRealizationBody)  *)
(* and reportErrors.                                                       *)
(*                                                                         *)
(* A character is a one-character string; a text (source, lexeme) is a     *)
(* sequence of characters.  pos and tokenPos keep the 0-based values of    *)
(* the code, so source[pos] of the code is source[pos + 1] here.           *)
(*                                                                         *)
(* A diagnostic "<text>" + arg of the code is the record                   *)
(* [msg |-> <name of the text>, arg |-> <the appended text>]; the names    *)
(* are English renderings of the Chinese literals of lexer.cpp (the same   *)
(* literals are in English in the older variant of the analyzer).          *)
(***************************************************************************)
EXTENDS Naturals, Sequences, FiniteSets

VARIABLES
    source,       \* std::string source
    pos,          \* size_t pos
    tokens,       \* std::vector<Token> tokens
    tokenPos,     \* size_t tokenPos
    symbolTable,  \* std::unordered_map<std::string, std::string> symbolTable
    errors,       \* std::vector<std::string> errors
    blockStack,   \* std::vector<std::string> blockStack of parseRealizationBody
    output,       \* what reportErrors printed: <<>> before it ran
    pc            \* where analyze() stands

vars == <<source, pos, tokens, tokenPos, symbolTable, errors, blockStack, output, pc>>

---------------------------------------------------------------------------
(* Bounds of the input enumeration *)

MaxLexLen == 3

MaxGroups == 2

MaxStmts == 3

---------------------------------------------------------------------------
(* Characters: <cctype> in the "C" locale *)

LowerSeq == <<"a","b","c","d","e","f","g","h","i","j","k","l","m",
              "n","o","p","q","r","s","t","u","v","w","x","y","z">>

UpperSeq == <<"A","B","C","D","E","F","G","H","I","J","K","L","M",
              "N","O","P","Q","R","S","T","U","V","W","X","Y","Z">>

Range(s) == {s[k] : k \in DOMAIN s}

isdigit(c) == c \in {"0","1","2","3","4","5","6","7","8","9"}

isalpha(c) == c \in Range(LowerSeq) \cup Range(UpperSeq)

isalnum(c) == isalpha(c) \/ isdigit(c)

\* the vertical tab (0x0B), for which TLA+ has no escape, stands in its string as itself
vtab == ""

isspace(c) == c \in {" ", "\t", "\n", vtab, "\f", "\r"}

tolower(c) ==
    IF c \in Range(UpperSeq)
    THEN LowerSeq[CHOOSE k \in DOMAIN UpperSeq : UpperSeq[k] = c]
    ELSE c

toLower(str) == [k \in DOMAIN str |-> tolower(str[k])]

isDelimiter(c) == c \in {";", ":", ",", "(", ")", "+", "-", "*", "/", "<", ">", "="}

---------------------------------------------------------------------------
(* Keywords and types *)

kw_var     == <<"v","a","r">>
kw_integer == <<"i","n","t","e","g","e","r">>
kw_longint == <<"l","o","n","g","i","n","t">>
kw_bool    == <<"b","o","o","l">>
kw_if      == <<"i","f">>
kw_then    == <<"t","h","e","n">>
kw_else    == <<"e","l","s","e">>
kw_while   == <<"w","h","i","l","e">>
kw_do      == <<"d","o">>
kw_for     == <<"f","o","r">>
kw_begin   == <<"b","e","g","i","n">>
kw_end     == <<"e","n","d">>
kw_and     == <<"a","n","d">>
kw_or      == <<"o","r">>

keywords == {kw_var, kw_integer, kw_longint, kw_bool, kw_if, kw_then, kw_else,
             kw_while, kw_do, kw_for, kw_begin, kw_end, kw_and, kw_or}

types == {kw_integer, kw_longint, kw_bool}

getKeywordType(keyword) ==
    IF keyword = kw_var THEN "KEYWORD_VAR"
    ELSE IF keyword = kw_integer THEN "KEYWORD_INTEGER"
    ELSE IF keyword = kw_longint THEN "KEYWORD_LONGINT"
    ELSE IF keyword = kw_bool THEN "KEYWORD_BOOL"
    ELSE IF keyword = kw_if THEN "KEYWORD_IF"
    ELSE IF keyword = kw_then THEN "KEYWORD_THEN"
    ELSE IF keyword = kw_else THEN "KEYWORD_ELSE"
    ELSE IF keyword = kw_while THEN "KEYWORD_WHILE"
    ELSE IF keyword = kw_do THEN "KEYWORD_DO"
    ELSE IF keyword = kw_for THEN "KEYWORD_FOR"
    ELSE IF keyword = kw_begin THEN "KEYWORD_BEGIN"
    ELSE IF keyword = kw_end THEN "KEYWORD_END"
    ELSE IF keyword = kw_and THEN "KEYWORD_AND"
    ELSE IF keyword = kw_or THEN "KEYWORD_OR"
    ELSE "ERROR"

Token(type, value) == [type |-> type, value |-> value]

---------------------------------------------------------------------------
(* Tokenizer.  Each scan returns the token and the position after it. *)

Scanned(token, p) == [token |-> token, pos |-> p]

\* the end (0-based, exclusive) of the run the identifier loop collects from p
RECURSIVE IdentifierEnd(_, _)
IdentifierEnd(src, p) ==
    IF p < Len(src) /\ ~isspace(src[p + 1]) /\ ~isDelimiter(src[p + 1])
    THEN IdentifierEnd(src, p + 1)
    ELSE p

\* readIdentifierOrKeyword giving a keyword token the lower-cased text
readIdentifierOrKeyword_LowerLexeme(src, p) ==
    LET e == IdentifierEnd(src, p)
        tokenStr == SubSeq(src, p + 1, e)
        lowerToken == toLower(tokenStr)
    IN  IF lowerToken \in keywords
        THEN Scanned(Token(getKeywordType(lowerToken), lowerToken), e)
        ELSE IF ~isalpha(tokenStr[1])
        THEN Scanned(Token("ERROR", tokenStr), e)
        ELSE IF \E k \in DOMAIN tokenStr : ~isalnum(tokenStr[k])
        THEN Scanned(Token("ERROR", tokenStr), e)
        ELSE Scanned(Token("IDENTIFIER", tokenStr), e)

readIdentifierOrKeyword(src, p) ==
    LET e == IdentifierEnd(src, p)
        tokenStr == SubSeq(src, p + 1, e)
        lowerToken == toLower(tokenStr)
    IN  IF lowerToken \in keywords
        THEN Scanned(Token(getKeywordType(lowerToken), tokenStr), e)
        ELSE IF ~isalpha(tokenStr[1])
        THEN Scanned(Token("ERROR", tokenStr), e)
        ELSE IF \E k \in DOMAIN tokenStr : ~isalnum(tokenStr[k])
        THEN Scanned(Token("ERROR", tokenStr), e)
        ELSE Scanned(Token("IDENTIFIER", tokenStr), e)

RECURSIVE NumberEnd(_, _)
NumberEnd(src, p) ==
    IF p < Len(src) /\ isdigit(src[p + 1]) THEN NumberEnd(src, p + 1) ELSE p

readNumber(src, p) ==
    LET e == NumberEnd(src, p)
    IN  Scanned(Token("NUMBER", SubSeq(src, p + 1, e)), e)

\* NextIs looking at source[pos] in place of source[pos + 1]
NextIs_SameChar(src, p, ch) == p + 1 < Len(src) /\ src[p + 1] = ch

\* source[pos + 1] == ch, guarded by pos + 1 < source.length()
NextIs(src, p, ch) == p + 1 < Len(src) /\ src[p + 2] = ch

readOperator(src, p) ==
    LET c == src[p + 1]
    IN  IF c = "+" THEN Scanned(Token("OPERATOR_PLUS", <<"+">>), p + 1)
        ELSE IF c = "-" THEN Scanned(Token("OPERATOR_MINUS", <<"-">>), p + 1)
        ELSE IF c = "*" THEN Scanned(Token("OPERATOR_MULTIPLY", <<"*">>), p + 1)
        ELSE IF c = "/" THEN Scanned(Token("OPERATOR_DIVIDE", <<"/">>), p + 1)
        ELSE IF c = ";" THEN Scanned(Token("DELIMITER_SEMICOLON", <<";">>), p + 1)
        ELSE IF c = "(" THEN Scanned(Token("DELIMITER_LPAREN", <<"(">>), p + 1)
        ELSE IF c = ")" THEN Scanned(Token("DELIMITER_RPAREN", <<")">>), p + 1)
        ELSE IF c = "," THEN Scanned(Token("DELIMITER_COMMA", <<",">>), p + 1)
        ELSE IF c = ":" THEN
            IF NextIs(src, p, "=")
            THEN Scanned(Token("OPERATOR_ASSIGN", <<":", "=">>), p + 2)
            ELSE Scanned(Token("DELIMITER_COLON", <<":">>), p + 1)
        ELSE IF c = "<" THEN
            IF NextIs(src, p, ">")
            THEN Scanned(Token("OPERATOR_NE", <<"<", ">">>), p + 2)
            ELSE IF NextIs(src, p, "=")
            THEN Scanned(Token("OPERATOR_LE", <<"<", "=">>), p + 2)
            ELSE Scanned(Token("OPERATOR_LT", <<"<">>), p + 1)
        ELSE IF c = ">" THEN
            IF NextIs(src, p, "=")
            THEN Scanned(Token("OPERATOR_GE", <<">", "=">>), p + 2)
            ELSE Scanned(Token("OPERATOR_GT", <<">">>), p + 1)
        ELSE IF c = "=" THEN
            IF NextIs(src, p, "=")
            THEN Scanned(Token("OPERATOR_EQ", <<"=", "=">>), p + 2)
            ELSE Scanned(Token("ERROR", <<"=">>), p + 1)
        ELSE Scanned(Token("ERROR", <<c>>), p + 1)

---------------------------------------------------------------------------
(* Diagnostics: errors.push_back(<text> + arg) *)

Diag(msg, arg) == [msg |-> msg, arg |-> arg]

push_back(errs, msg, arg) == Append(errs, Diag(msg, arg))

\* the literal appended in place of a lexeme when the tokens have run out
none == <<"n","o","n","e">>

\* the block markers parseRealizationBody pushes
mk_while == <<"w","h","i","l","e">>
mk_if    == <<"i","f">>
mk_begin == <<"b","e","g","i","n">>

EmptyTable == [n \in {} |-> <<>>]

\* count comparing names without regard to letter case
count_IgnoreCase(table, name) == \E n \in DOMAIN table : toLower(n) = toLower(name)

\* symbolTable.count(name)
count(table, name) == name \in DOMAIN table

\* symbolTable[name] = type
insert(table, name, type) ==
    [n \in DOMAIN table \cup {name} |-> IF n = name THEN type ELSE table[n]]

\* tokenPos < tokens.size() && tokens[tokenPos].type == type
TypeIs(toks, tp, type) == tp < Len(toks) /\ toks[tp + 1].type = type

\* tokenPos < tokens.size() ? tokens[tokenPos].value : none
ValueOrNone(toks, tp) == IF tp < Len(toks) THEN toks[tp + 1].value ELSE none

---------------------------------------------------------------------------
(* parseDefinitionBody: one iteration of its loop.  The result holds the   *)
(* members the iteration leaves and whether it returned from the function. *)

DefResult(tp, table, errs, returned) ==
    [tokenPos |-> tp, symbolTable |-> table, errors |-> errs, returned |-> returned]

\* CommaLoop that lets a comma end the list
RECURSIVE CommaLoop_TrailingComma(_, _, _, _)
CommaLoop_TrailingComma(toks, tp, vs, errs) ==
    IF TypeIs(toks, tp, "DELIMITER_COMMA")
    THEN IF ~TypeIs(toks, tp + 1, "IDENTIFIER")
         THEN [tokenPos |-> tp + 1, vars |-> vs, errors |-> errs, returned |-> FALSE]
         ELSE CommaLoop_TrailingComma(toks, tp + 2, Append(vs, toks[tp + 2].value), errs)
    ELSE [tokenPos |-> tp, vars |-> vs, errors |-> errs, returned |-> FALSE]

\* the comma loop: collects identifiers into vs from tp on
RECURSIVE CommaLoop(_, _, _, _)
CommaLoop(toks, tp, vs, errs) ==
    IF TypeIs(toks, tp, "DELIMITER_COMMA")
    THEN IF ~TypeIs(toks, tp + 1, "IDENTIFIER")
         THEN [tokenPos |-> tp + 1, vars |-> vs,
               errors |-> push_back(errs, "Expected identifier after comma", <<>>),
               returned |-> TRUE]
         ELSE IF toks[tp + 2].type = "ERROR"
         THEN [tokenPos |-> tp + 2, vars |-> vs,
               errors |-> push_back(errs, "Invalid identifier: ", toks[tp + 2].value),
               returned |-> TRUE]
         ELSE CommaLoop(toks, tp + 2, Append(vs, toks[tp + 2].value), errs)
    ELSE [tokenPos |-> tp, vars |-> vs, errors |-> errs, returned |-> FALSE]

\* InsertVars without the symbolTable.count test: a repeated name is overwritten
RECURSIVE InsertVars_Overwrite(_, _, _, _, _)
InsertVars_Overwrite(table, vs, k, varType, errs) ==
    IF k > Len(vs)
    THEN [symbolTable |-> table, errors |-> errs, returned |-> FALSE]
    ELSE InsertVars_Overwrite(insert(table, vs[k], varType), vs, k + 1, varType, errs)

\* InsertVars that reports the repeated name and goes on with the names after it
RECURSIVE InsertVars_KeepGoing(_, _, _, _, _)
InsertVars_KeepGoing(table, vs, k, varType, errs) ==
    IF k > Len(vs)
    THEN [symbolTable |-> table, errors |-> errs, returned |-> errs # <<>>]
    ELSE IF count(table, vs[k])
    THEN InsertVars_KeepGoing(table, vs, k + 1, varType,
                              IF errs = <<>>
                              THEN push_back(errs, "Repeated definition of variable: ", vs[k])
                              ELSE errs)
    ELSE InsertVars_KeepGoing(insert(table, vs[k], varType), vs, k + 1, varType, errs)

\* the insertion loop over vars, from its k-th name on
RECURSIVE InsertVars(_, _, _, _, _)
InsertVars(table, vs, k, varType, errs) ==
    IF k > Len(vs)
    THEN [symbolTable |-> table, errors |-> errs, returned |-> FALSE]
    ELSE IF count(table, vs[k])
    THEN [symbolTable |-> table,
          errors |-> push_back(errs, "Repeated definition of variable: ", vs[k]),
          returned |-> TRUE]
    ELSE InsertVars(insert(table, vs[k], varType), vs, k + 1, varType, errs)

DefinitionGroup(toks, tp, table, errs) ==
    IF toks[tp + 1].type = "ERROR"
    THEN DefResult(tp + 1, table,
                   push_back(errs, "Invalid keyword: ", toks[tp + 1].value), TRUE)
    ELSE IF toks[tp + 1].type # "IDENTIFIER"
    THEN DefResult(tp + 1, table,
                   push_back(errs, "No valid identifier: ", toks[tp + 1].value), TRUE)
    ELSE
    LET cl == CommaLoop(toks, tp + 1, <<toks[tp + 1].value>>, errs)
        p1 == cl.tokenPos
    IN  IF cl.returned
        THEN DefResult(p1, table, cl.errors, TRUE)
        ELSE IF TypeIs(toks, p1, "IDENTIFIER")
        THEN DefResult(p1, table,
                       push_back(errs, "Missing comma between identifiers", <<>>), TRUE)
        ELSE IF ~TypeIs(toks, p1, "DELIMITER_COLON")
        THEN DefResult(p1, table,
                       push_back(errs, "Missing ':' after variable(s)", <<>>), TRUE)
        ELSE IF p1 + 1 >= Len(toks) \/ toLower(toks[p1 + 2].value) \notin types
        THEN DefResult(p1 + 1, table,
                       push_back(errs, "Expected type (integer, longint, bool), found: ",
                                 ValueOrNone(toks, p1 + 1)), TRUE)
        ELSE
        LET varType == toLower(toks[p1 + 2].value)
            ins == InsertVars(table, cl.vars, 1, varType, errs)
        IN  IF ins.returned
            THEN DefResult(p1 + 2, ins.symbolTable, ins.errors, TRUE)
            ELSE IF ~TypeIs(toks, p1 + 2, "DELIMITER_SEMICOLON")
            THEN DefResult(p1 + 2, ins.symbolTable,
                           push_back(errs, "Missing ';' after variable declaration", <<>>),
                           TRUE)
            ELSE DefResult(p1 + 3, ins.symbolTable, errs, FALSE)

---------------------------------------------------------------------------
(* parseRealizationBody: one iteration of its loop, branch by branch.      *)

StmtResult(tp, stack, errs, returned) ==
    [tokenPos |-> tp, blockStack |-> stack, errors |-> errs, returned |-> returned]

back(stack) == stack[Len(stack)]

pop_back(stack) == SubSeq(stack, 1, Len(stack) - 1)

\* AssignmentStatement stepping over the token after the name without testing it
AssignmentStatement_NoAssignTest(toks, tp, table, stack, errs) ==
    LET varName == toks[tp + 1].value
    IN  IF ~count(table, varName)
        THEN StmtResult(tp, stack, push_back(errs, "Undefined variable: ", varName), TRUE)
        ELSE IF ~(TypeIs(toks, tp + 2, "NUMBER") \/ TypeIs(toks, tp + 2, "IDENTIFIER"))
        THEN StmtResult(tp + 2, stack,
                        push_back(errs, "Expected number or identifier after ':=', found: ",
                                  ValueOrNone(toks, tp + 2)), TRUE)
        ELSE IF ~TypeIs(toks, tp + 3, "DELIMITER_SEMICOLON")
        THEN StmtResult(tp + 3, stack,
                        push_back(errs, "Missing ';' after assignment", <<>>), TRUE)
        ELSE StmtResult(tp + 4, stack, errs, FALSE)

\* AssignmentStatement taking only a number on the right-hand side
AssignmentStatement_NumberOnly(toks, tp, table, stack, errs) ==
    LET varName == toks[tp + 1].value
    IN  IF ~count(table, varName)
        THEN StmtResult(tp, stack, push_back(errs, "Undefined variable: ", varName), TRUE)
        ELSE IF ~TypeIs(toks, tp + 1, "OPERATOR_ASSIGN")
        THEN StmtResult(tp + 1, stack,
                        push_back(errs, "Missing ':=' after identifier: ", varName), TRUE)
        ELSE IF ~TypeIs(toks, tp + 2, "NUMBER")
        THEN StmtResult(tp + 2, stack,
                        push_back(errs, "Expected number or identifier after ':=', found: ",
                                  ValueOrNone(toks, tp + 2)), TRUE)
        ELSE IF ~TypeIs(toks, tp + 3, "DELIMITER_SEMICOLON")
        THEN StmtResult(tp + 3, stack,
                        push_back(errs, "Missing ';' after assignment", <<>>), TRUE)
        ELSE StmtResult(tp + 4, stack, errs, FALSE)

\* AssignmentStatement testing ':=' before it looks the target up
AssignmentStatement_AssignFirst(toks, tp, table, stack, errs) ==
    LET varName == toks[tp + 1].value
    IN  IF ~TypeIs(toks, tp + 1, "OPERATOR_ASSIGN")
        THEN StmtResult(tp + 1, stack,
                        push_back(errs, "Missing ':=' after identifier: ", varName), TRUE)
        ELSE IF ~count(table, varName)
        THEN StmtResult(tp, stack, push_back(errs, "Undefined variable: ", varName), TRUE)
        ELSE IF ~(TypeIs(toks, tp + 2, "NUMBER") \/ TypeIs(toks, tp + 2, "IDENTIFIER"))
        THEN StmtResult(tp + 2, stack,
                        push_back(errs, "Expected number or identifier after ':=', found: ",
                                  ValueOrNone(toks, tp + 2)), TRUE)
        ELSE IF toks[tp + 3].type = "IDENTIFIER" /\ ~count(table, toks[tp + 3].value)
        THEN StmtResult(tp + 2, stack,
                        push_back(errs, "Undefined variable in assignment: ",
                                  toks[tp + 3].value), TRUE)
        ELSE IF ~TypeIs(toks, tp + 3, "DELIMITER_SEMICOLON")
        THEN StmtResult(tp + 3, stack,
                        push_back(errs, "Missing ';' after assignment", <<>>), TRUE)
        ELSE StmtResult(tp + 4, stack, errs, FALSE)

\* the assignment branch; the current token is an identifier
AssignmentStatement(toks, tp, table, stack, errs) ==
    LET varName == toks[tp + 1].value
    IN  IF ~count(table, varName)
        THEN StmtResult(tp, stack, push_back(errs, "Undefined variable: ", varName), TRUE)
        ELSE IF ~TypeIs(toks, tp + 1, "OPERATOR_ASSIGN")
        THEN StmtResult(tp + 1, stack,
                        push_back(errs, "Missing ':=' after identifier: ", varName), TRUE)
        ELSE IF ~(TypeIs(toks, tp + 2, "NUMBER") \/ TypeIs(toks, tp + 2, "IDENTIFIER"))
        THEN StmtResult(tp + 2, stack,
                        push_back(errs, "Expected number or identifier after ':=', found: ",
                                  ValueOrNone(toks, tp + 2)), TRUE)
        ELSE IF toks[tp + 3].type = "IDENTIFIER" /\ ~count(table, toks[tp + 3].value)
        THEN StmtResult(tp + 2, stack,
                        push_back(errs, "Undefined variable in assignment: ",
                                  toks[tp + 3].value), TRUE)
        ELSE IF ~TypeIs(toks, tp + 3, "DELIMITER_SEMICOLON")
        THEN StmtResult(tp + 3, stack,
                        push_back(errs, "Missing ';' after assignment", <<>>), TRUE)
        ELSE StmtResult(tp + 4, stack, errs, FALSE)

\* ConditionLoop that does not count the `(` inside the condition
RECURSIVE ConditionLoop_NoNesting(_, _, _)
ConditionLoop_NoNesting(toks, tp, parenCount) ==
    IF tp < Len(toks) /\ parenCount > 0
    THEN IF toks[tp + 1].type = "DELIMITER_RPAREN"
         THEN ConditionLoop_NoNesting(toks, tp + 1, parenCount - 1)
         ELSE ConditionLoop_NoNesting(toks, tp + 1, parenCount)
    ELSE [tokenPos |-> tp, parenCount |-> parenCount]

\* the condition loop: counts parentheses from tp on until they balance
RECURSIVE ConditionLoop(_, _, _)
ConditionLoop(toks, tp, parenCount) ==
    IF tp < Len(toks) /\ parenCount > 0
    THEN IF toks[tp + 1].type = "DELIMITER_LPAREN"
         THEN ConditionLoop(toks, tp + 1, parenCount + 1)
         ELSE IF toks[tp + 1].type = "DELIMITER_RPAREN"
         THEN ConditionLoop(toks, tp + 1, parenCount - 1)
         ELSE ConditionLoop(toks, tp + 1, parenCount)
    ELSE [tokenPos |-> tp, parenCount |-> parenCount]

\* the while branch; the current token is `while`
WhileStatement(toks, tp, stack, errs) ==
    LET pushed == Append(stack, mk_while)
    IN  IF ~TypeIs(toks, tp + 1, "DELIMITER_LPAREN")
        THEN StmtResult(tp + 1, pushed,
                        push_back(errs, "Missing '(' after while", <<>>), TRUE)
        ELSE
        LET cond == ConditionLoop(toks, tp + 2, 1)
        IN  IF cond.parenCount > 0
            THEN StmtResult(cond.tokenPos, pushed,
                            push_back(errs, "Unbalanced parentheses in while condition", <<>>),
                            TRUE)
            ELSE IF ~TypeIs(toks, cond.tokenPos, "KEYWORD_DO")
            THEN StmtResult(cond.tokenPos, pushed,
                            push_back(errs, "Missing 'do' after while condition", <<>>), TRUE)
            ELSE StmtResult(cond.tokenPos + 1, pushed, errs, FALSE)

\* the if branch; the current token is `if`
IfStatement(toks, tp, stack, errs) ==
    LET pushed == Append(stack, mk_if)
    IN  IF ~TypeIs(toks, tp + 1, "DELIMITER_LPAREN")
        THEN StmtResult(tp + 1, pushed,
                        push_back(errs, "Missing '(' after if", <<>>), TRUE)
        ELSE
        LET cond == ConditionLoop(toks, tp + 2, 1)
        IN  IF cond.parenCount > 0
            THEN StmtResult(cond.tokenPos, pushed,
                            push_back(errs, "Unbalanced parentheses in if condition", <<>>),
                            TRUE)
            ELSE IF ~TypeIs(toks, cond.tokenPos, "KEYWORD_THEN")
            THEN StmtResult(cond.tokenPos, pushed,
                            push_back(errs, "Missing 'then' after if condition", <<>>), TRUE)
            ELSE StmtResult(cond.tokenPos + 1, pushed, errs, FALSE)

\* BeginStatement that opens no block
BeginStatement_NoPush(toks, tp, stack, errs) == StmtResult(tp + 1, stack, errs, FALSE)

\* BeginStatement that does not step over `begin`
BeginStatement_NoAdvance(toks, tp, stack, errs) ==
    StmtResult(tp, Append(stack, mk_begin), errs, FALSE)

\* the begin branch
BeginStatement(toks, tp, stack, errs) ==
    StmtResult(tp + 1, Append(stack, mk_begin), errs, FALSE)

\* the end branch; the current token is `end`
EndStatement(toks, tp, stack, errs) ==
    IF stack = <<>>
    THEN StmtResult(tp, stack, push_back(errs, "Unmatched 'end'", <<>>), TRUE)
    ELSE
    LET lastBlock == back(stack)
        popped == pop_back(stack)
    IN  IF popped # <<>> /\ ~TypeIs(toks, tp + 1, "DELIMITER_SEMICOLON")
        THEN StmtResult(tp + 1, popped,
                        push_back(errs, "'s 'end' is missing ';'", lastBlock), TRUE)
        ELSE IF TypeIs(toks, tp + 1, "DELIMITER_SEMICOLON")
        THEN StmtResult(tp + 2, popped, errs, FALSE)
        ELSE StmtResult(tp + 1, popped, errs, FALSE)

\* ElseStatement testing only that some block is open
ElseStatement_AnyBlock(toks, tp, stack, errs) ==
    IF stack = <<>>
    THEN StmtResult(tp, stack, push_back(errs, "'else' not matched to 'if'", <<>>), TRUE)
    ELSE StmtResult(tp + 1, stack, errs, FALSE)

\* the else branch; the current token is `else`
ElseStatement(toks, tp, stack, errs) ==
    IF stack = <<>> \/ back(stack) # mk_if
    THEN StmtResult(tp, stack, push_back(errs, "'else' not matched to 'if'", <<>>), TRUE)
    ELSE StmtResult(tp + 1, stack, errs, FALSE)

\* the dispatch of one iteration on the type of the current token
Statement(toks, tp, table, stack, errs) ==
    LET type == toks[tp + 1].type
    IN  IF type = "ERROR"
        THEN StmtResult(tp + 1, stack,
                        push_back(errs, "Invalid token in realization: ", toks[tp + 1].value),
                        TRUE)
        ELSE IF type = "IDENTIFIER" THEN AssignmentStatement(toks, tp, table, stack, errs)
        ELSE IF type = "KEYWORD_WHILE" THEN WhileStatement(toks, tp, stack, errs)
        ELSE IF type = "KEYWORD_IF" THEN IfStatement(toks, tp, stack, errs)
        ELSE IF type = "KEYWORD_BEGIN" THEN BeginStatement(toks, tp, stack, errs)
        ELSE IF type = "KEYWORD_END" THEN EndStatement(toks, tp, stack, errs)
        ELSE IF type = "KEYWORD_ELSE" THEN ElseStatement(toks, tp, stack, errs)
        ELSE StmtResult(tp + 1, stack,
                        push_back(errs, "Unexpected token: ", toks[tp + 1].value), TRUE)

\* UnclosedBlocks reporting nothing
UnclosedBlocks_Silent(stack, errs) == errs

\* the check after the loop: a block left open
UnclosedBlocks(stack, errs) ==
    IF stack # <<>>
    THEN push_back(errs, "Missing 'end' to match ", back(stack))
    ELSE errs

---------------------------------------------------------------------------
(* parse: what it does around its calls of the two validators *)

\* the loop guards of the two validators
InDefinitionLoop(toks, tp) == tp < Len(toks) /\ toks[tp + 1].type # "KEYWORD_BEGIN"

InRealizationLoop(toks, tp) == tp < Len(toks) /\ toks[tp + 1].type # "KEYWORD_END"

\* AfterDefinition without the errors.empty() test before the check of `begin`
AfterDefinition_NoEmptyTest(toks, tp, errs) ==
    IF ~TypeIs(toks, tp, "KEYWORD_BEGIN")
    THEN [tokenPos |-> tp, errors |-> push_back(errs, "Missing 'begin' after definition body", <<>>),
          pc |-> "report"]
    ELSE IF errs # <<>>
    THEN [tokenPos |-> tp, errors |-> errs, pc |-> "report"]
    ELSE [tokenPos |-> tp + 1, errors |-> errs, pc |-> "realization"]

\* after parseDefinitionBody: report a missing begin, stop on a diagnostic, or
\* step over `begin` into parseRealizationBody
AfterDefinition(toks, tp, errs) ==
    IF errs = <<>> /\ ~TypeIs(toks, tp, "KEYWORD_BEGIN")
    THEN [tokenPos |-> tp, errors |-> push_back(errs, "Missing 'begin' after definition body", <<>>),
          pc |-> "report"]
    ELSE IF errs # <<>>
    THEN [tokenPos |-> tp, errors |-> errs, pc |-> "report"]
    ELSE [tokenPos |-> tp + 1, errors |-> errs, pc |-> "realization"]

\* AfterRealization that wants the `end` to be the last token
AfterRealization_EndIsLast(toks, tp, errs) ==
    IF errs = <<>> /\ ~(TypeIs(toks, tp, "KEYWORD_END") /\ tp + 1 = Len(toks))
    THEN push_back(errs, "Missing 'end' at program termination", <<>>)
    ELSE errs

\* after parseRealizationBody: report a missing end
AfterRealization(toks, tp, errs) ==
    IF errs = <<>> /\ ~TypeIs(toks, tp, "KEYWORD_END")
    THEN push_back(errs, "Missing 'end' at program termination", <<>>)
    ELSE errs

---------------------------------------------------------------------------
(* The source texts analyze() is run on.  A text is written as a sequence  *)
(* of words; Join puts them together with a blank wherever two words would *)
(* otherwise run into one scan of the tokenizer.                           *)

w_Var     == <<"V","a","r">>
w_Begin   == <<"B","e","g","i","n">>
w_End     == <<"E","n","d">>
w_integer == <<"i","n","t","e","g","e","r">>
w_Bool    == <<"B","o","o","l">>
w_bool    == <<"b","o","o","l">>
w_longint == <<"l","o","n","g","i","n","t">>
w_while   == <<"w","h","i","l","e">>
w_do      == <<"d","o">>
w_if      == <<"i","f">>
w_then    == <<"t","h","e","n">>
w_else    == <<"e","l","s","e">>
w_begin   == <<"b","e","g","i","n">>
w_end     == <<"e","n","d">>
w_i       == <<"i">>
w_j       == <<"j">>
w_k       == <<"k">>
w_I       == <<"I">>
w_J1      == <<"J","1">>
w_9i      == <<"9","i">>
w_ihash   == <<"i","#">>
w_0       == <<"0">>
w_1       == <<"1">>
w_50      == <<"5","0">>
w_semi    == <<";">>
w_colon   == <<":">>
w_comma   == <<",">>
w_assign  == <<":","=">>
w_eq      == <<"=">>
w_lt      == <<"<">>
w_lp      == <<"(">>
w_rp      == <<")">>

Glue(a, b) ==
    IF a = <<>> \/ b = <<>> THEN a \o b
    ELSE IF isDelimiter(a[Len(a)]) \/ isDelimiter(b[1]) THEN a \o b
    ELSE a \o <<" ">> \o b

RECURSIVE Join(_)
Join(words) ==
    IF words = <<>> THEN <<>>
    ELSE IF Len(words) = 1 THEN words[1]
    ELSE Glue(words[1], Join(Tail(words)))

RECURSIVE Flatten(_)
Flatten(seqs) == IF seqs = <<>> THEN <<>> ELSE seqs[1] \o Flatten(Tail(seqs))

SeqsUpTo(S, n) == UNION {[1..k -> S] : k \in 0..n}

\* every text over a small alphabet, up to MaxLexLen characters
LexAlphabet == {"i", "9", ":", "=", "<", ">", " ", "\t", vtab}

LexSources == SeqsUpTo(LexAlphabet, MaxLexLen)

\* declaration groups, well formed and not
GroupShapes ==
    { <<w_i, w_colon, w_integer, w_semi>>,
      <<w_j, w_colon, w_Bool, w_semi>>,
      <<w_i, w_comma, w_j, w_colon, w_integer, w_semi>>,
      <<w_j, w_comma, w_i, w_colon, w_longint, w_semi>>,
      <<w_i, w_comma, w_i, w_colon, w_integer, w_semi>>,
      <<w_I, w_colon, w_integer, w_semi>>,
      <<w_i, w_j, w_colon, w_integer, w_semi>>,
      <<w_i, w_comma, w_colon, w_integer, w_semi>>,
      <<w_i, w_integer, w_semi>>,
      <<w_i, w_colon, w_j, w_semi>>,
      <<w_i, w_colon, w_Bool>>,
      <<w_9i, w_colon, w_integer, w_semi>>,
      <<w_ihash, w_colon, w_integer, w_semi>>,
      <<w_colon, w_integer, w_semi>> }

DeclTails == { <<>>, <<w_Begin, w_End>> }

DeclSources ==
    { Join(<<w_Var>> \o Flatten(gs) \o tail) :
        gs \in SeqsUpTo(GroupShapes, MaxGroups), tail \in DeclTails }

\* statements and pieces of statements, after a fixed declaration of i and j
BodyPrefix == <<w_Var, w_i, w_comma, w_j, w_colon, w_integer, w_semi, w_Begin>>

StatementShapes ==
    { <<w_i, w_assign, w_0, w_semi>>,
      <<w_j, w_assign, w_i, w_semi>>,
      <<w_i, w_eq, w_0, w_semi>>,
      <<w_while, w_lp, w_i, w_lt, w_j, w_rp, w_do>>,
      <<w_if, w_lp, w_rp, w_then>>,
      <<w_begin>>,
      <<w_else>>,
      <<w_end, w_semi>>,
      <<w_End>>,
      <<w_k, w_assign, w_0, w_semi>>,
      <<w_i, w_assign, w_0>>,
      <<w_ihash>>,
      <<w_lt>> }

BodySources ==
    { Join(BodyPrefix \o Flatten(ss)) : ss \in SeqsUpTo(StatementShapes, MaxStmts) }

\* the test cases of main
TestCases ==
    { Join(<<w_Var, w_i, w_comma, w_j, w_colon, w_integer, w_semi, w_Begin,
             w_i, w_assign, w_0, w_semi, w_j, w_assign, w_1, w_semi, w_End>>),
      <<"V","a","r","i",":","i","n","t","e","g","e","r",";">>,
      Join(<<w_Var, w_9i, w_colon, w_integer, w_semi>>),
      Join(<<w_Var, w_i, w_j, w_colon, w_integer, w_semi>>),
      Join(<<w_Var, w_ihash, w_colon, w_integer, w_semi>>),
      Join(<<w_Var, w_i, w_colon, w_integer>>),
      Join(<<w_Var, w_i, w_colon, w_integer, w_semi, w_i, w_colon, w_bool, w_semi>>),
      Join(<<w_Var, w_i, w_colon, w_integer, w_semi, w_Begin,
             w_i, w_eq, w_0, w_semi, w_End>>),
      Join(<<w_Var, w_i, w_colon, w_integer, w_semi, w_Begin,
             w_j, w_assign, w_0, w_semi, w_End>>),
      Join(<<w_Var, w_i, w_comma, w_J1, w_colon, w_integer, w_semi, w_Begin,
             w_i, w_assign, w_0, w_J1, w_assign, w_50, w_semi, w_End>>) }

\* further texts: a name used with only another declared, a name declared in
\* lower case and used in upper case, and vertical tabs between the words
CaseSources ==
    { Join(<<w_Var, w_i, w_colon, w_integer, w_semi, w_Begin,
             w_k, w_assign, w_0, w_semi, w_End>>),
      Join(<<w_Var, w_i, w_colon, w_Bool, w_semi, w_Begin,
             w_I, w_assign, w_0, w_semi, w_End>>),
      w_Var \o <<vtab>> \o w_i \o w_colon \o w_integer \o w_semi
            \o w_Begin \o <<vtab>> \o w_End }

Sources == LexSources \cup DeclSources \cup BodySources \cup TestCases \cup CaseSources

---------------------------------------------------------------------------
(* The state machine *)

Init ==
    /\ source \in Sources
    /\ pos = 0
    /\ tokens = <<>>
    /\ tokenPos = 0
    /\ symbolTable = EmptyTable
    /\ errors = <<>>
    /\ blockStack = <<>>
    /\ output = <<>>
    /\ pc = "tokenize"

\* tokenize: one iteration of its loop, on a whitespace character
TokenizeWhitespace ==
    /\ pc = "tokenize"
    /\ pos < Len(source)
    /\ isspace(source[pos + 1])
    /\ pos' = pos + 1
    /\ UNCHANGED <<source, tokens, tokenPos, symbolTable, errors, blockStack, output, pc>>

\* tokenize: one iteration of its loop, on a letter
TokenizeIdentifier ==
    /\ pc = "tokenize"
    /\ pos < Len(source)
    /\ ~isspace(source[pos + 1])
    /\ isalpha(source[pos + 1])
    /\ LET r == readIdentifierOrKeyword(source, pos)
       IN  /\ tokens' = Append(tokens, r.token)
           /\ pos' = r.pos
    /\ UNCHANGED <<source, tokenPos, symbolTable, errors, blockStack, output, pc>>

\* tokenize: one iteration of its loop, on a digit
TokenizeNumber ==
    /\ pc = "tokenize"
    /\ pos < Len(source)
    /\ ~isspace(source[pos + 1])
    /\ ~isalpha(source[pos + 1])
    /\ isdigit(source[pos + 1])
    /\ LET r == readNumber(source, pos)
       IN  /\ tokens' = Append(tokens, r.token)
           /\ pos' = r.pos
    /\ UNCHANGED <<source, tokenPos, symbolTable, errors, blockStack, output, pc>>

\* tokenize: one iteration of its loop, on any other character
TokenizeOperator ==
    /\ pc = "tokenize"
    /\ pos < Len(source)
    /\ ~isspace(source[pos + 1])
    /\ ~isalpha(source[pos + 1])
    /\ ~isdigit(source[pos + 1])
    /\ LET r == readOperator(source, pos)
       IN  /\ tokens' = Append(tokens, r.token)
           /\ pos' = r.pos
    /\ UNCHANGED <<source, tokenPos, symbolTable, errors, blockStack, output, pc>>

\* AnalyzeTokens without the tokens.empty() test: parse is always called
AnalyzeTokens_AlwaysParse(toks, errs) == [errors |-> errs, pc |-> "parse"]

\* analyze, once tokenize has returned: the empty program, or the call of parse
AnalyzeTokens(toks, errs) ==
    IF toks = <<>>
    THEN [errors |-> push_back(errs, "Empty program", <<>>), pc |-> "report"]
    ELSE [errors |-> errs, pc |-> "parse"]

TokenizeReturn ==
    /\ pc = "tokenize"
    /\ pos >= Len(source)
    /\ LET r == AnalyzeTokens(tokens, errors)
       IN  /\ errors' = r.errors
           /\ pc' = r.pc
    /\ UNCHANGED <<source, pos, tokens, tokenPos, symbolTable, blockStack, output>>

\* ParseVar going on to parseDefinitionBody after its diagnostic
ParseVar_NoReturn(toks, tp, errs) ==
    IF ~TypeIs(toks, tp, "KEYWORD_VAR")
    THEN [tokenPos |-> tp, errors |-> push_back(errs, "Program must start with 'var'", <<>>),
          pc |-> "definition"]
    ELSE [tokenPos |-> tp + 1, errors |-> errs, pc |-> "definition"]

\* parse, up to its call of parseDefinitionBody
ParseVar(toks, tp, errs) ==
    IF ~TypeIs(toks, tp, "KEYWORD_VAR")
    THEN [tokenPos |-> tp, errors |-> push_back(errs, "Program must start with 'var'", <<>>),
          pc |-> "report"]
    ELSE [tokenPos |-> tp + 1, errors |-> errs, pc |-> "definition"]

parse ==
    /\ pc = "parse"
    /\ LET r == ParseVar(tokens, tokenPos, errors)
       IN  /\ tokenPos' = r.tokenPos
           /\ errors' = r.errors
           /\ pc' = r.pc
    /\ UNCHANGED <<source, pos, tokens, symbolTable, blockStack, output>>

\* parseDefinitionBody: one declaration group; a return inside it goes back to parse
parseDefinitionGroup ==
    /\ pc = "definition"
    /\ InDefinitionLoop(tokens, tokenPos)
    /\ LET g == DefinitionGroup(tokens, tokenPos, symbolTable, errors)
           a == AfterDefinition(tokens, g.tokenPos, g.errors)
       IN  /\ symbolTable' = g.symbolTable
           /\ tokenPos' = IF g.returned THEN a.tokenPos ELSE g.tokenPos
           /\ errors' = IF g.returned THEN a.errors ELSE g.errors
           /\ pc' = IF g.returned THEN a.pc ELSE "definition"
    /\ UNCHANGED <<source, pos, tokens, blockStack, output>>

\* parseDefinitionBody: its loop ends, and parse goes on to parseRealizationBody
parseDefinitionEnd ==
    /\ pc = "definition"
    /\ ~InDefinitionLoop(tokens, tokenPos)
    /\ LET a == AfterDefinition(tokens, tokenPos, errors)
       IN  /\ tokenPos' = a.tokenPos
           /\ errors' = a.errors
           /\ pc' = a.pc
    /\ blockStack' = <<>>
    /\ UNCHANGED <<source, pos, tokens, symbolTable, output>>

\* parseRealizationStatement looking a name up with symbolTable[name], which
\* inserts the name it does not find
parseRealizationStatement_Inserts ==
    /\ pc = "realization"
    /\ InRealizationLoop(tokens, tokenPos)
    /\ LET st == Statement(tokens, tokenPos, symbolTable, blockStack, errors)
       IN  /\ tokenPos' = st.tokenPos
           /\ blockStack' = st.blockStack
           /\ errors' = IF st.returned
                        THEN AfterRealization(tokens, st.tokenPos, st.errors)
                        ELSE st.errors
           /\ pc' = IF st.returned THEN "report" ELSE "realization"
    /\ symbolTable' = IF tokens[tokenPos + 1].type = "IDENTIFIER"
                      THEN insert(symbolTable, tokens[tokenPos + 1].value,
                                  IF count(symbolTable, tokens[tokenPos + 1].value)
                                  THEN symbolTable[tokens[tokenPos + 1].value]
                                  ELSE <<>>)
                      ELSE symbolTable
    /\ UNCHANGED <<source, pos, tokens, output>>

\* parseRealizationBody: one statement; a return inside it goes back to parse
parseRealizationStatement ==
    /\ pc = "realization"
    /\ InRealizationLoop(tokens, tokenPos)
    /\ LET st == Statement(tokens, tokenPos, symbolTable, blockStack, errors)
       IN  /\ tokenPos' = st.tokenPos
           /\ blockStack' = st.blockStack
           /\ errors' = IF st.returned
                        THEN AfterRealization(tokens, st.tokenPos, st.errors)
                        ELSE st.errors
           /\ pc' = IF st.returned THEN "report" ELSE "realization"
    /\ UNCHANGED <<source, pos, tokens, symbolTable, output>>

\* parseRealizationBody: its loop ends, open blocks are reported, parse checks `end`
parseRealizationEnd ==
    /\ pc = "realization"
    /\ ~InRealizationLoop(tokens, tokenPos)
    /\ errors' = AfterRealization(tokens, tokenPos, UnclosedBlocks(blockStack, errors))
    /\ pc' = "report"
    /\ UNCHANGED <<source, pos, tokens, tokenPos, symbolTable, blockStack, output>>

\* reportErrors: the success line, or the list of diagnostics
reportErrors ==
    /\ pc = "report"
    /\ output' = IF errors = <<>> THEN <<"success">> ELSE <<"errors">> \o errors
    /\ pc' = "done"
    /\ UNCHANGED <<source, pos, tokens, tokenPos, symbolTable, errors, blockStack>>

Next ==
    \/ TokenizeWhitespace
    \/ TokenizeIdentifier
    \/ TokenizeNumber
    \/ TokenizeOperator
    \/ TokenizeReturn
    \/ parse
    \/ parseDefinitionGroup
    \/ parseDefinitionEnd
    \/ parseRealizationStatement
    \/ parseRealizationEnd
    \/ reportErrors

Spec == Init /\ [][Next]_vars

---------------------------------------------------------------------------
(* Runs under fairness, for termination.  analyze() is sequential code that *)
(* waits for nothing: whenever a step is possible it is taken.  The texts  *)
(* are a part of the first family with every phase and every branch of     *)
(* the statement loop in it.                                               *)

FairGroupShapes ==
    { <<w_i, w_colon, w_integer, w_semi>>,
      <<w_i, w_comma, w_j, w_colon, w_integer, w_semi>>,
      <<w_i, w_comma, w_i, w_colon, w_integer, w_semi>>,
      <<w_i, w_j, w_colon, w_integer, w_semi>> }

FairStatementShapes ==
    { <<w_i, w_assign, w_0, w_semi>>,
      <<w_while, w_lp, w_i, w_lt, w_j, w_rp, w_do>>,
      <<w_if, w_lp, w_rp, w_then>>,
      <<w_begin>>,
      <<w_else>>,
      <<w_End>>,
      <<w_ihash>> }

FairSources ==
    { <<>>, <<" ", "\t", vtab>>, <<"9", "i">>, <<":", "=", "=">> }
    \cup TestCases \cup CaseSources
    \cup { Join(<<w_Var>> \o Flatten(gs) \o tail) :
              gs \in SeqsUpTo(FairGroupShapes, MaxGroups), tail \in DeclTails }
    \cup { Join(BodyPrefix \o Flatten(ss)) : ss \in SeqsUpTo(FairStatementShapes, MaxStmts) }

InitFair ==
    /\ source \in FairSources
    /\ pos = 0
    /\ tokens = <<>>
    /\ tokenPos = 0
    /\ symbolTable = EmptyTable
    /\ errors = <<>>
    /\ blockStack = <<>>
    /\ output = <<>>
    /\ pc = "tokenize"

FairSpec == InitFair /\ [][Next]_vars /\ WF_vars(Next)

---------------------------------------------------------------------------
(* A second family of source texts: longer identifier lists, groups cut    *)
(* short by the end of the text, assignments that fail at each of their    *)
(* checks, and conditions with nested, missing and unbalanced parentheses. *)

MoreGroupShapes ==
    { <<w_i, w_colon, w_integer, w_semi>>,
      <<w_k, w_colon, w_Bool, w_semi>>,
      <<w_i, w_comma, w_j, w_comma, w_k, w_colon, w_integer, w_semi>>,
      <<w_i, w_comma, w_i, w_comma, w_j, w_colon, w_Bool, w_semi>>,
      <<w_j, w_comma, w_i, w_comma, w_k, w_colon, w_longint, w_semi>>,
      <<w_i, w_comma, w_ihash, w_colon, w_integer, w_semi>>,
      <<w_i, w_ihash, w_colon, w_integer, w_semi>>,
      <<w_ihash, w_comma, w_i, w_colon, w_integer, w_semi>>,
      <<w_i, w_j, w_semi>>,
      <<w_i, w_comma, w_j>>,
      <<w_i, w_comma>>,
      <<w_i, w_colon>>,
      <<w_i, w_colon, w_integer, w_i>> }

MoreDeclSources ==
    { Join(<<w_Var>> \o Flatten(gs) \o tail) :
        gs \in SeqsUpTo(MoreGroupShapes, MaxGroups), tail \in DeclTails }

MoreStatementShapes ==
    { <<w_i, w_assign, w_0, w_semi>>,
      <<w_i, w_assign, w_k, w_semi>>,
      <<w_i, w_assign, w_semi>>,
      <<w_i, w_assign>>,
      <<w_j, w_assign, w_i>>,
      <<w_k>>,
      <<w_j>>,
      <<w_while, w_lp, w_lp, w_i, w_rp, w_do>>,
      <<w_while, w_lp, w_ihash, w_end, w_rp, w_do>>,
      <<w_if, w_lp, w_lp, w_rp, w_rp, w_then>>,
      <<w_while, w_i, w_do>>,
      <<w_if, w_i, w_then>>,
      <<w_if, w_lp, w_i, w_rp, w_do>>,
      <<w_while, w_lp, w_rp, w_then>>,
      <<w_if, w_lp, w_i>>,
      <<w_rp>>,
      <<w_End>> }

MoreBodySources ==
    { Join(BodyPrefix \o Flatten(ss)) : ss \in SeqsUpTo(MoreStatementShapes, MaxStmts) }

MoreSources == MoreDeclSources \cup MoreBodySources \cup CaseSources

InitMore ==
    /\ source \in MoreSources
    /\ pos = 0
    /\ tokens = <<>>
    /\ tokenPos = 0
    /\ symbolTable = EmptyTable
    /\ errors = <<>>
    /\ blockStack = <<>>
    /\ output = <<>>
    /\ pc = "tokenize"

SpecMore == InitMore /\ [][Next]_vars

---------------------------------------------------------------------------
(* analyze() from the token sequence on, as one function: the loops of the *)
(* two validators run to their end.                                        *)

RECURSIVE parseDefinitionBody(_, _, _, _)
parseDefinitionBody(toks, tp, table, errs) ==
    IF InDefinitionLoop(toks, tp)
    THEN LET g == DefinitionGroup(toks, tp, table, errs)
         IN  IF g.returned THEN g
             ELSE parseDefinitionBody(toks, g.tokenPos, g.symbolTable, g.errors)
    ELSE DefResult(tp, table, errs, FALSE)

RECURSIVE parseRealizationBody(_, _, _, _, _)
parseRealizationBody(toks, tp, table, stack, errs) ==
    IF InRealizationLoop(toks, tp)
    THEN LET st == Statement(toks, tp, table, stack, errs)
         IN  IF st.returned THEN st
             ELSE parseRealizationBody(toks, st.tokenPos, table, st.blockStack, st.errors)
    ELSE StmtResult(tp, stack, UnclosedBlocks(stack, errs), FALSE)

\* what analyze leaves for a token sequence: symbol table and diagnostics
Analysis(table, errs) == [symbolTable |-> table, errors |-> errs]

analyze(toks) ==
    LET a == AnalyzeTokens(toks, <<>>)
        v == ParseVar(toks, 0, a.errors)
        d == parseDefinitionBody(toks, v.tokenPos, EmptyTable, v.errors)
        ad == AfterDefinition(toks, d.tokenPos, d.errors)
        r == parseRealizationBody(toks, ad.tokenPos, d.symbolTable, <<>>, ad.errors)
    IN  IF a.pc = "report" THEN Analysis(EmptyTable, a.errors)
        ELSE IF v.pc = "report" THEN Analysis(EmptyTable, v.errors)
        ELSE IF ad.pc = "report" THEN Analysis(d.symbolTable, ad.errors)
        ELSE Analysis(d.symbolTable, AfterRealization(toks, r.tokenPos, r.errors))

---------------------------------------------------------------------------
(* The older analyzer (src/unnamed/part_001; part_000 is the same code     *)
(* with Chinese literals).  Its tokenizer, analyze and parse are the code  *)
(* of lexer.cpp line for line, so the operators above stand for them; its  *)
(* parseDefinitionBody differs from lexer.cpp's in the literals of its     *)
(* first two diagnostics; its parseRealizationBody has no block stack and  *)
(* takes assignments only.                                                 *)

\* one iteration of the loop of the older parseRealizationBody
OlderStatement(toks, tp, table, errs) ==
    LET type == toks[tp + 1].type
    IN  IF type = "ERROR"
        THEN StmtResult(tp + 1, <<>>,
                        push_back(errs, "Invalid token in realization: ", toks[tp + 1].value),
                        TRUE)
        ELSE IF type # "IDENTIFIER"
        THEN StmtResult(tp + 1, <<>>,
                        push_back(errs, "Expected identifier in statement, found: ",
                                  toks[tp + 1].value), TRUE)
        ELSE
        LET varName == toks[tp + 1].value
        IN  IF ~count(table, varName)
            THEN StmtResult(tp, <<>>, push_back(errs, "Undefined variable: ", varName), TRUE)
            ELSE IF ~TypeIs(toks, tp + 1, "OPERATOR_ASSIGN")
            THEN StmtResult(tp + 1, <<>>,
                            push_back(errs, "Missing ':=' after identifier: ", varName), TRUE)
            ELSE IF ~(TypeIs(toks, tp + 2, "NUMBER") \/ TypeIs(toks, tp + 2, "IDENTIFIER"))
            THEN StmtResult(tp + 2, <<>>,
                            push_back(errs, "Expected number or identifier after ':=', found: ",
                                      ValueOrNone(toks, tp + 2)), TRUE)
            ELSE IF toks[tp + 3].type = "IDENTIFIER" /\ ~count(table, toks[tp + 3].value)
            THEN StmtResult(tp + 2, <<>>,
                            push_back(errs, "Undefined variable in assignment: ",
                                      toks[tp + 3].value), TRUE)
            ELSE IF ~TypeIs(toks, tp + 3, "DELIMITER_SEMICOLON")
            THEN StmtResult(tp + 3, <<>>,
                            push_back(errs, "Missing ';' after assignment", <<>>), TRUE)
            ELSE StmtResult(tp + 4, <<>>, errs, FALSE)

\* one iteration of the loop of the older parseDefinitionBody: its first two
\* diagnostics have literals of their own (lines 234, 239); from line 242 on
\* the code and its literals are those of lexer.cpp from line 240 on
OlderDefinitionGroup(toks, tp, table, errs) ==
    IF toks[tp + 1].type = "ERROR"
    THEN DefResult(tp + 1, table,
                   push_back(errs, "Invalid identifier: ", toks[tp + 1].value), TRUE)
    ELSE IF toks[tp + 1].type # "IDENTIFIER"
    THEN DefResult(tp + 1, table,
                   push_back(errs, "Expected identifier, found: ", toks[tp + 1].value), TRUE)
    ELSE DefinitionGroup(toks, tp, table, errs)

RECURSIVE OlderDefinitionBody(_, _, _, _)
OlderDefinitionBody(toks, tp, table, errs) ==
    IF InDefinitionLoop(toks, tp)
    THEN LET g == OlderDefinitionGroup(toks, tp, table, errs)
         IN  IF g.returned THEN g
             ELSE OlderDefinitionBody(toks, g.tokenPos, g.symbolTable, g.errors)
    ELSE DefResult(tp, table, errs, FALSE)

RECURSIVE OlderRealizationBody(_, _, _, _)
OlderRealizationBody(toks, tp, table, errs) ==
    IF InRealizationLoop(toks, tp)
    THEN LET st == OlderStatement(toks, tp, table, errs)
         IN  IF st.returned THEN st
             ELSE OlderRealizationBody(toks, st.tokenPos, table, st.errors)
    ELSE StmtResult(tp, <<>>, errs, FALSE)

OlderAnalyze(toks) ==
    LET a == AnalyzeTokens(toks, <<>>)
        v == ParseVar(toks, 0, a.errors)
        d == OlderDefinitionBody(toks, v.tokenPos, EmptyTable, v.errors)
        ad == AfterDefinition(toks, d.tokenPos, d.errors)
        r == OlderRealizationBody(toks, ad.tokenPos, d.symbolTable, ad.errors)
    IN  IF a.pc = "report" THEN Analysis(EmptyTable, a.errors)
        ELSE IF v.pc = "report" THEN Analysis(EmptyTable, v.errors)
        ELSE IF ad.pc = "report" THEN Analysis(d.symbolTable, ad.errors)
        ELSE Analysis(d.symbolTable, AfterRealization(toks, r.tokenPos, r.errors))

---------------------------------------------------------------------------
(* Properties.  Well-formedness of a program is stated on its tokens, by a *)
(* recognizer of the grammar that is independent of the two validators.    *)

TypeTokens == {"KEYWORD_INTEGER", "KEYWORD_LONGINT", "KEYWORD_BOOL"}

\* an identifier list  ident {, ident}  of fresh names from p on
RECURSIVE WFIdents(_, _, _)
WFIdents(toks, p, seen) ==
    IF ~TypeIs(toks, p, "IDENTIFIER") \/ toks[p + 1].value \in seen
    THEN [ok |-> FALSE, pos |-> p, names |-> seen]
    ELSE IF TypeIs(toks, p + 1, "DELIMITER_COMMA")
    THEN WFIdents(toks, p + 2, seen \cup {toks[p + 1].value})
    ELSE [ok |-> TRUE, pos |-> p + 1, names |-> seen \cup {toks[p + 1].value}]

\* groups  ident {, ident} : type ;  over unique names, up to `begin`
RECURSIVE WFGroups(_, _, _)
WFGroups(toks, p, seen) ==
    IF TypeIs(toks, p, "KEYWORD_BEGIN")
    THEN [ok |-> TRUE, pos |-> p, names |-> seen]
    ELSE LET ids == WFIdents(toks, p, seen)
         IN  IF /\ ids.ok
                /\ TypeIs(toks, ids.pos, "DELIMITER_COLON")
                /\ ids.pos + 1 < Len(toks)
                /\ toks[ids.pos + 2].type \in TypeTokens
                /\ TypeIs(toks, ids.pos + 2, "DELIMITER_SEMICOLON")
             THEN WFGroups(toks, ids.pos + 3, ids.names)
             ELSE [ok |-> FALSE, pos |-> p, names |-> seen]

\* the position after the `)` that closes a condition opened before p; 0 if none
RECURSIVE CloseParen(_, _, _)
CloseParen(toks, p, depth) ==
    IF p >= Len(toks) THEN 0
    ELSE IF toks[p + 1].type = "DELIMITER_LPAREN" THEN CloseParen(toks, p + 1, depth + 1)
    ELSE IF toks[p + 1].type = "DELIMITER_RPAREN"
    THEN IF depth = 1 THEN p + 1 ELSE CloseParen(toks, p + 1, depth - 1)
    ELSE CloseParen(toks, p + 1, depth)

\* statements from p on, with the open blocks in `open`, up to the final `end`,
\* which is the last token; blocks are recognized only if `nested`
RECURSIVE WFBody(_, _, _, _, _)
WFBody(toks, p, names, open, nested) ==
    IF p >= Len(toks) THEN FALSE
    ELSE LET type == toks[p + 1].type
         IN  IF type = "KEYWORD_END"
             THEN IF open = <<>>
                  THEN p + 1 = Len(toks)
                  ELSE /\ TypeIs(toks, p + 1, "DELIMITER_SEMICOLON")
                       /\ WFBody(toks, p + 2, names, Tail(open), nested)
             ELSE IF type = "IDENTIFIER"
             THEN /\ toks[p + 1].value \in names
                  /\ TypeIs(toks, p + 1, "OPERATOR_ASSIGN")
                  /\ \/ TypeIs(toks, p + 2, "NUMBER")
                     \/ TypeIs(toks, p + 2, "IDENTIFIER") /\ toks[p + 3].value \in names
                  /\ TypeIs(toks, p + 3, "DELIMITER_SEMICOLON")
                  /\ WFBody(toks, p + 4, names, open, nested)
             ELSE IF nested /\ type \in {"KEYWORD_WHILE", "KEYWORD_IF"}
             THEN /\ TypeIs(toks, p + 1, "DELIMITER_LPAREN")
                  /\ LET q == CloseParen(toks, p + 2, 1)
                     IN  /\ q > 0
                         /\ TypeIs(toks, q, IF type = "KEYWORD_WHILE"
                                            THEN "KEYWORD_DO" ELSE "KEYWORD_THEN")
                         /\ WFBody(toks, q + 1, names, <<type>> \o open, nested)
             ELSE IF nested /\ type = "KEYWORD_BEGIN"
             THEN WFBody(toks, p + 1, names, <<type>> \o open, nested)
             ELSE IF nested /\ type = "KEYWORD_ELSE"
             THEN /\ open # <<>>
                  /\ open[1] = "KEYWORD_IF"
                  /\ WFBody(toks, p + 1, names, open, nested)
             ELSE FALSE

WellFormedProgram(toks, nested) ==
    /\ TypeIs(toks, 0, "KEYWORD_VAR")
    /\ LET d == WFGroups(toks, 1, {})
       IN  d.ok /\ WFBody(toks, d.pos + 1, d.names, <<>>, nested)

\* C1: every well-formed program, nested blocks included (each closed by its
\* own `end;`), ends analyze with no diagnostic.
C1_WellFormedProgramSucceeds ==
    (pc = "done" /\ WellFormedProgram(tokens, TRUE)) => errors = <<>>

\* C2: at every step the diagnostics list holds at most one entry, and once it
\* holds one, no step moves the token cursor or changes the list.
C2_AtMostOneDiagnostic ==
    [][ /\ Len(errors) <= 1
        /\ Len(errors') <= 1
        /\ errors # <<>> => (errors' = errors /\ tokenPos' = tokenPos) ]_vars

\* a run stopped by a diagnostic with tokens left unread
C2_Witness ==
    pc = "done" /\ Len(errors) = 1 /\ tokenPos > 1 /\ tokenPos + 1 < Len(tokens)

\* the first character of the text after the leading `var`
RECURSIVE SkipSpaces(_, _)
SkipSpaces(src, p) ==
    IF p < Len(src) /\ isspace(src[p + 1]) THEN SkipSpaces(src, p + 1) ELSE p

AfterVar(src) == SkipSpaces(src, SkipSpaces(src, 0) + 3)

\* the text at p, up to the next whitespace or delimiter character
TextAt(src, p) == SubSeq(src, p + 1, IdentifierEnd(src, p))

\* the text at p begins with a digit and is not a number
DigitLed(src, p) ==
    /\ p < Len(src)
    /\ isdigit(src[p + 1])
    /\ \E k \in DOMAIN TextAt(src, p) : ~isdigit(TextAt(src, p)[k])

\* C3: a text at identifier position that begins with a digit (9i) is one error
\* token carrying the whole text, and the declaration validator stops with the
\* invalid-identifier diagnostic for it.
C3_DigitLedTextIsErrorToken ==
    (pc = "done" /\ TypeIs(tokens, 0, "KEYWORD_VAR") /\ DigitLed(source, AfterVar(source)))
        => /\ Len(tokens) >= 2
           /\ tokens[2] = Token("ERROR", TextAt(source, AfterVar(source)))
           /\ errors = <<Diag("Invalid keyword: ", TextAt(source, AfterVar(source)))>>

\* the structural validator is at a declared identifier followed by a lone `=`
AtLoneEquals ==
    /\ pc = "realization"
    /\ InRealizationLoop(tokens, tokenPos)
    /\ tokens[tokenPos + 1].type = "IDENTIFIER"
    /\ count(symbolTable, tokens[tokenPos + 1].value)
    /\ tokenPos + 1 < Len(tokens)
    /\ tokens[tokenPos + 2] = Token("ERROR", <<"=">>)

\* C4 (as stated): a declared identifier at statement position followed by a lone
\* `=` stops the structural validator with "invalid token in realization".
C4_LoneEqualsIsInvalidToken ==
    [][ AtLoneEquals =>
            /\ errors' = <<Diag("Invalid token in realization: ", <<"=">>)>>
            /\ pc' = "report" ]_vars

\* C4 (amended): a declared identifier at statement position followed by a lone
\* `=` stops the structural validator with "missing ':=' after identifier: <name>".
C4_LoneEqualsIsMissingAssign ==
    [][ AtLoneEquals =>
            /\ errors' = <<Diag("Missing ':=' after identifier: ", tokens[tokenPos + 1].value)>>
            /\ pc' = "report" ]_vars

\* the run stopped at the lone `=` that follows a declared identifier
C4_Witness ==
    /\ pc = "done"
    /\ tokenPos >= 1
    /\ tokenPos < Len(tokens)
    /\ tokens[tokenPos].type = "IDENTIFIER"
    /\ count(symbolTable, tokens[tokenPos].value)
    /\ tokens[tokenPos + 1] = Token("ERROR", <<"=">>)
    /\ errors = <<Diag("Missing ':=' after identifier: ", tokens[tokenPos].value)>>

\* C5: var, well-formed groups over unique names, begin, assignments
\* x := <number or declared identifier> ; with x declared, end: analyze reports
\* success with no diagnostic.
C5_AssignmentProgramSucceeds ==
    (pc = "done" /\ WellFormedProgram(tokens, FALSE))
        => errors = <<>> /\ output = <<"success">>

\* a successful program with an assignment from an identifier
C5_Witness ==
    /\ pc = "done"
    /\ WellFormedProgram(tokens, FALSE)
    /\ output = <<"success">>
    /\ \E k \in DOMAIN tokens :
          /\ tokens[k].type = "OPERATOR_ASSIGN"
          /\ k < Len(tokens)
          /\ tokens[k + 1].type = "IDENTIFIER"

AllSpace(src) == \A k \in DOMAIN src : isspace(src[k])

\* C6: on an empty or all-whitespace source the token sequence stays empty, the
\* parser is not run, and the diagnostics end as exactly "empty program".
C6_EmptyProgram ==
    AllSpace(source)
        => /\ tokens = <<>>
           /\ tokenPos = 0
           /\ symbolTable = EmptyTable
           /\ pc \in {"tokenize", "report", "done"}
           /\ pc = "tokenize" => errors = <<>>
           /\ pc # "tokenize" => errors = <<Diag("Empty program", <<>>)>>

C6_Witness ==
    /\ pc = "done"
    /\ Len(source) >= 2
    /\ AllSpace(source)
    /\ errors = <<Diag("Empty program", <<>>)>>

\* the names of a group  ident {, ident} : type  at p, <<>> if it has not that shape
RECURSIVE GroupNames(_, _, _)
GroupNames(toks, p, acc) ==
    IF ~TypeIs(toks, p, "IDENTIFIER") THEN <<>>
    ELSE IF TypeIs(toks, p + 1, "DELIMITER_COMMA")
    THEN GroupNames(toks, p + 2, Append(acc, toks[p + 1].value))
    ELSE IF /\ TypeIs(toks, p + 1, "DELIMITER_COLON")
            /\ p + 2 < Len(toks)
            /\ toks[p + 3].type \in TypeTokens
    THEN Append(acc, toks[p + 1].value)
    ELSE <<>>

\* the first name of ns, from its k-th on, that is in seen or earlier in ns; <<>> if none
RECURSIVE FirstRepeated(_, _, _)
FirstRepeated(ns, k, seen) ==
    IF k > Len(ns) THEN <<>>
    ELSE IF ns[k] \in seen THEN ns[k]
    ELSE FirstRepeated(ns, k + 1, seen \cup {ns[k]})

\* the first re-declared name of the declaration section from p on: the groups
\* before it are complete, its own group has the shape of a group; <<>> if none
RECURSIVE FirstRedeclared(_, _, _)
FirstRedeclared(toks, p, seen) ==
    IF p >= Len(toks) \/ toks[p + 1].type = "KEYWORD_BEGIN" THEN <<>>
    ELSE LET ns == GroupNames(toks, p, <<>>)
             after == p + 2 * Len(ns) + 1
         IN  IF ns = <<>> THEN <<>>
             ELSE IF FirstRepeated(ns, 1, seen) # <<>> THEN FirstRepeated(ns, 1, seen)
             ELSE IF TypeIs(toks, after, "DELIMITER_SEMICOLON")
             THEN FirstRedeclared(toks, after + 1, seen \cup Range(ns))
             ELSE <<>>

Redeclared == IF TypeIs(tokens, 0, "KEYWORD_VAR") THEN FirstRedeclared(tokens, 1, {}) ELSE <<>>

\* C7: a declaration of a name that is already in the symbol table, in a later
\* group or later in the same list, ends the run with the diagnostic that names it.
C7_RedeclarationIsReported ==
    (pc = "done" /\ Redeclared # <<>>)
        => errors = <<Diag("Repeated definition of variable: ", Redeclared)>>

\* a re-declaration in a second group, after a group that declared two names
C7_Witness ==
    /\ pc = "done"
    /\ Redeclared # <<>>
    /\ Cardinality(DOMAIN symbolTable) >= 2
    /\ tokenPos >= 10
    /\ errors = <<Diag("Repeated definition of variable: ", Redeclared)>>

\* C8: when the statement loop ends with a block open, the run ends with
\* "missing 'end' to match <top marker>"; when the structural validator ends
\* without a diagnostic of its own, the block stack is empty.
C8_BlockStackAtLoopEnd ==
    [][ /\ (pc = "realization" /\ ~InRealizationLoop(tokens, tokenPos) /\ blockStack # <<>>)
            => /\ errors' = <<Diag("Missing 'end' to match ", back(blockStack))>>
               /\ pc' = "report"
        /\ (/\ pc = "realization"
            /\ pc' = "report"
            /\ errors' \in {<<>>, <<Diag("Missing 'end' at program termination", <<>>)>>})
            => blockStack' = <<>> ]_vars

\* the loop ended at an `end` with two blocks open
C8_Witness ==
    /\ pc = "done"
    /\ Len(blockStack) = 2
    /\ TypeIs(tokens, tokenPos, "KEYWORD_END")
    /\ errors = <<Diag("Missing 'end' to match ", back(blockStack))>>

\* the structural validator is at an `else` that the top of the block stack does not allow
AtUnmatchedElse ==
    /\ pc = "realization"
    /\ TypeIs(tokens, tokenPos, "KEYWORD_ELSE")
    /\ (blockStack = <<>> \/ back(blockStack) # mk_if)

\* C9: an `else` at statement position while the top of the block stack is not
\* `if`, the empty stack included, ends the run with "'else' not matched to 'if'".
C9_UnmatchedElse ==
    [][ AtUnmatchedElse =>
            /\ errors' = <<Diag("'else' not matched to 'if'", <<>>)>>
            /\ pc' = "report" ]_vars

\* the run stopped at an `else` inside a while block
C9_Witness ==
    /\ pc = "done"
    /\ TypeIs(tokens, tokenPos, "KEYWORD_ELSE")
    /\ blockStack # <<>>
    /\ back(blockStack) = mk_while
    /\ errors = <<Diag("'else' not matched to 'if'", <<>>)>>

\* the two-character operators and the one-character fallbacks, by lexeme
TwoCharType(lexeme) ==
    IF lexeme = <<":", "=">> THEN "OPERATOR_ASSIGN"
    ELSE IF lexeme = <<"<", ">">> THEN "OPERATOR_NE"
    ELSE IF lexeme = <<"<", "=">> THEN "OPERATOR_LE"
    ELSE IF lexeme = <<">", "=">> THEN "OPERATOR_GE"
    ELSE IF lexeme = <<"=", "=">> THEN "OPERATOR_EQ"
    ELSE "none"

OneCharType(c) ==
    IF c = ":" THEN "DELIMITER_COLON"
    ELSE IF c = "<" THEN "OPERATOR_LT"
    ELSE IF c = ">" THEN "OPERATOR_GT"
    ELSE "ERROR"

\* C10: at `:`, `<`, `>` or `=` the scan emits the two-character operator that
\* stands there, with the source slice as its lexeme, and advances by two;
\* otherwise it emits `:`, `<`, `>` as one-character tokens and a lone `=` as an
\* error token, and advances by one.
C10_TwoCharacterLookahead ==
    [][ (pc = "tokenize" /\ pos < Len(source) /\ source[pos + 1] \in {":", "<", ">", "="})
            => LET slice == IF pos + 2 <= Len(source)
                            THEN SubSeq(source, pos + 1, pos + 2)
                            ELSE <<source[pos + 1]>>
               IN  IF Len(slice) = 2 /\ TwoCharType(slice) # "none"
                   THEN /\ tokens' = Append(tokens, Token(TwoCharType(slice), slice))
                        /\ pos' = pos + 2
                   ELSE /\ tokens' = Append(tokens, Token(OneCharType(source[pos + 1]),
                                                          <<source[pos + 1]>>))
                        /\ pos' = pos + 1 ]_vars

\* `:==` scanned as `:=` and the error token `=`
C10_Witness ==
    /\ pc = "done"
    /\ source = <<":", "=", "=">>
    /\ tokens = <<Token("OPERATOR_ASSIGN", <<":", "=">>), Token("ERROR", <<"=">>)>>

---------------------------------------------------------------------------
(* Claims on the assignment branch, the leading `var` and the tokenizer *)

\* the step ends the run with the one diagnostic d
StopsWith(d) == errors' = <<d>> /\ pc' = "report"

\* the structural validator is at an identifier at statement position
AtAssignment ==
    /\ pc = "realization"
    /\ InRealizationLoop(tokens, tokenPos)
    /\ tokens[tokenPos + 1].type = "IDENTIFIER"

\* C11: an assignment is checked in this order, stopping at the first failure
\* with its diagnostic: the target is a key of the symbol table, the next token
\* is `:=`, the next is a number or an identifier of the symbol table, the next
\* is `;`; when all four hold the statement is stepped over.
C11_AssignmentCheckOrder ==
    [][ AtAssignment =>
          LET name == tokens[tokenPos + 1].value
              rhs == tokens[tokenPos + 3]
          IN  IF name \notin DOMAIN symbolTable
              THEN StopsWith(Diag("Undefined variable: ", name))
              ELSE IF ~TypeIs(tokens, tokenPos + 1, "OPERATOR_ASSIGN")
              THEN StopsWith(Diag("Missing ':=' after identifier: ", name))
              ELSE IF tokenPos + 2 >= Len(tokens)
              THEN StopsWith(Diag("Expected number or identifier after ':=', found: ", none))
              ELSE IF rhs.type \notin {"NUMBER", "IDENTIFIER"}
              THEN StopsWith(Diag("Expected number or identifier after ':=', found: ",
                                  rhs.value))
              ELSE IF rhs.type = "IDENTIFIER" /\ rhs.value \notin DOMAIN symbolTable
              THEN StopsWith(Diag("Undefined variable in assignment: ", rhs.value))
              ELSE IF ~TypeIs(tokens, tokenPos + 3, "DELIMITER_SEMICOLON")
              THEN StopsWith(Diag("Missing ';' after assignment", <<>>))
              ELSE /\ errors' = <<>>
                   /\ pc' = "realization"
                   /\ tokenPos' = tokenPos + 4 ]_vars

\* after one assignment went through, a run stopped at an undeclared name on
\* the right-hand side of the next
C11_Witness ==
    /\ pc = "done"
    /\ tokenPos >= 14
    /\ tokenPos < Len(tokens)
    /\ tokens[tokenPos].type = "OPERATOR_ASSIGN"
    /\ tokens[tokenPos - 1].value \in DOMAIN symbolTable
    /\ errors = <<Diag("Undefined variable in assignment: ", tokens[tokenPos + 1].value)>>

\* the source begins, after whitespace, with `var` run on into a letter or digit
VarRunsOn(src) ==
    LET p == SkipSpaces(src, 0)
    IN  /\ p + 4 <= Len(src)
        /\ toLower(SubSeq(src, p + 1, p + 3)) = kw_var
        /\ isalnum(src[p + 4])

\* C12: when the first token of a non-empty token sequence is not `var`, the
\* run ends with exactly "program must start with 'var'", with the token cursor
\* still at 0 and the symbol table empty; `var` run on into alphanumeric text
\* (Vari) is one token carrying the whole text, not the keyword.
C12_MustStartWithVar ==
    /\ (pc \in {"report", "done"} /\ tokens # <<>> /\ tokens[1].type # "KEYWORD_VAR")
          => /\ errors = <<Diag("Program must start with 'var'", <<>>)>>
             /\ tokenPos = 0
             /\ symbolTable = EmptyTable
             /\ blockStack = <<>>
    /\ (pc # "tokenize" /\ VarRunsOn(source))
          => /\ tokens[1].value = TextAt(source, SkipSpaces(source, 0))
             /\ tokens[1].type # "KEYWORD_VAR"
             /\ (\A k \in DOMAIN tokens[1].value : isalnum(tokens[1].value[k]))
                   => tokens[1].type = "IDENTIFIER"

\* main's test case Vari:integer; at its end
C12_Witness ==
    /\ pc = "done"
    /\ VarRunsOn(source)
    /\ tokens[1] = Token("IDENTIFIER", <<"V", "a", "r", "i">>)
    /\ Len(tokens) = 4
    /\ output = <<"errors", Diag("Program must start with 'var'", <<>>)>>

\* the lexemes of a token sequence, one after the other
RECURSIVE Lexemes(_)
Lexemes(toks) == IF toks = <<>> THEN <<>> ELSE toks[1].value \o Lexemes(Tail(toks))

NotSpace(c) == ~isspace(c)

\* C13: the tokenizer consumes every character exactly once: at each point of
\* the scan the lexemes of the tokens emitted so far, one after the other, are
\* the text consumed so far without its whitespace; the scan ends at the end of
\* the source; no lexeme is empty.
C13_LexemesAreTheSource ==
    /\ pos <= Len(source)
    /\ Lexemes(tokens) = SelectSeq(SubSeq(source, 1, pos), NotSpace)
    /\ \A k \in DOMAIN tokens : tokens[k].value # <<>>
    /\ pc # "tokenize" => pos = Len(source)

\* a scanned text with whitespace, a keyword in capitals, a number, a
\* two-character operator and an error token
C13_Witness ==
    /\ pc = "done"
    /\ \E k \in DOMAIN source : isspace(source[k])
    /\ \E k \in DOMAIN tokens : tokens[k].type = "KEYWORD_BEGIN" /\ tokens[k].value = w_Begin
    /\ \E k \in DOMAIN tokens : tokens[k].type = "NUMBER"
    /\ \E k \in DOMAIN tokens : tokens[k].type = "OPERATOR_ASSIGN"
    /\ \E k \in DOMAIN tokens : tokens[k].type = "ERROR"
    /\ Len(Lexemes(tokens)) < Len(source)

---------------------------------------------------------------------------
(* Claims on the blocks of the body *)

\* C14: at an `end` while the block stack is non-empty the structural
\* validator steps over that `end` and pops the top marker; if the stack is
\* still non-empty after the pop a `;` must follow (else "<marker>'s 'end' is
\* missing ';'"), and the body goes on; only an `end` that leaves the stack
\* empty ends the body.
C14_EndPopsTheBlockStack ==
    [][ (pc = "realization" /\ TypeIs(tokens, tokenPos, "KEYWORD_END") /\ blockStack # <<>>)
          => /\ blockStack' = pop_back(blockStack)
             /\ tokenPos' > tokenPos
             /\ IF pop_back(blockStack) = <<>>
                THEN pc' = "report" /\ errors' = <<>>
                ELSE IF TypeIs(tokens, tokenPos + 1, "DELIMITER_SEMICOLON")
                THEN pc' = "realization" /\ errors' = <<>> /\ tokenPos' = tokenPos + 2
                ELSE StopsWith(Diag("'s 'end' is missing ';'", back(blockStack))) ]_vars

\* what the claim says of the step at the keyword kw that opens a condition
ConditionStep(kw, marker, closer, noParen, unbalanced, noCloser) ==
    (pc = "realization" /\ TypeIs(tokens, tokenPos, kw))
      => /\ blockStack' = Append(blockStack, marker)
         /\ IF ~TypeIs(tokens, tokenPos + 1, "DELIMITER_LPAREN")
            THEN StopsWith(Diag(noParen, <<>>))
            ELSE LET q == CloseParen(tokens, tokenPos + 2, 1)
                 IN  IF q = 0
                     THEN StopsWith(Diag(unbalanced, <<>>))
                     ELSE IF TypeIs(tokens, q, closer)
                     THEN errors' = <<>> /\ pc' = "realization" /\ tokenPos' = q + 1
                     ELSE StopsWith(Diag(noCloser, <<>>))

\* C15: at `while` (resp. `if`) the marker is pushed, `(` is required, the
\* tokens up to the `)` that brings the depth back to zero are stepped over
\* whatever they are, and `do` (resp. `then`) is required as the very next
\* token; if the tokens run out at a positive depth the run ends with the
\* unbalanced-parentheses diagnostic.
C15_ConditionByParenthesisCount ==
    [][ /\ ConditionStep("KEYWORD_WHILE", mk_while, "KEYWORD_DO",
                         "Missing '(' after while",
                         "Unbalanced parentheses in while condition",
                         "Missing 'do' after while condition")
        /\ ConditionStep("KEYWORD_IF", mk_if, "KEYWORD_THEN",
                         "Missing '(' after if",
                         "Unbalanced parentheses in if condition",
                         "Missing 'then' after if condition") ]_vars

\* a while whose condition holds an error token and `end`, then an if with
\* nested empty parentheses, both stepped over
C15_Witness ==
    /\ pc = "done"
    /\ blockStack = <<mk_while, mk_if>>
    /\ \E k \in 1..tokenPos - 1 : tokens[k].type = "ERROR" /\ tokens[k + 1].type = "KEYWORD_END"
    /\ \E k \in 1..tokenPos - 1 :
          tokens[k].type = "DELIMITER_LPAREN" /\ tokens[k + 1].type = "DELIMITER_LPAREN"
    /\ tokens[tokenPos].type = "KEYWORD_THEN"

\* C16: the analyzer with the block stack and the older analyzer without it
\* accept the same inputs and build the same symbol table: at the end of a run
\* of the first, it reports success if and only if the older one, run on the
\* same text, ends with no diagnostic, and the two symbol tables are equal.
C16_SameAcceptedInputs ==
    pc = "done" =>
        LET older == OlderAnalyze(tokens)
        IN  /\ (output = <<"success">>) <=> (older.errors = <<>>)
            /\ symbolTable = older.symbolTable

\* a body with a while block: both analyzers reject it, each with its own diagnostic
C16_Witness ==
    /\ pc = "done"
    /\ errors = <<Diag("Missing 'end' to match ", mk_while)>>
    /\ \E k \in DOMAIN tokens :
          /\ tokens[k].type = "KEYWORD_WHILE"
          /\ OlderAnalyze(tokens).errors =
                <<Diag("Expected identifier in statement, found: ", tokens[k].value)>>
    /\ Cardinality(DOMAIN symbolTable) = 2

---------------------------------------------------------------------------
(* Termination *)

\* the order of the phases of analyze
Rank(p) ==
    IF p = "tokenize" THEN 0
    ELSE IF p = "parse" THEN 1
    ELSE IF p = "definition" THEN 2
    ELSE IF p = "realization" THEN 3
    ELSE IF p = "report" THEN 4
    ELSE 5

\* C17: every run of analyze ends in the report, with no read out of bounds:
\* pos and tokenPos never pass the end of what they index and every step that
\* reads source[pos] or tokens[tokenPos] finds the index inside; each step of
\* the tokenizer moves pos forward by at least one; each iteration of the
\* declaration loop and of the statement loop moves tokenPos forward by at
\* least one or ends the loop with a diagnostic; the phases only go forward;
\* and the report is eventually printed.
C17_TerminatesInBounds ==
    /\ [](pos <= Len(source) /\ tokenPos <= Len(tokens))
    /\ [][ /\ (pc = "tokenize" /\ pc' = "tokenize") => (pos < Len(source) /\ pos' >= pos + 1)
           /\ (pc \in {"definition", "realization"} /\ pc' = pc)
                 => (tokenPos < Len(tokens) /\ tokenPos' >= tokenPos + 1)
           /\ (pc \in {"definition", "realization"} /\ tokenPos < Len(tokens) /\ pc' # pc)
                 => (pc' = "report" \/ errors' = <<>>)
           /\ Rank(pc') >= Rank(pc)
           /\ pc = "done" => UNCHANGED vars ]_vars
    /\ <>(pc = "done" /\ output # <<>>)

\* a run that went through both loops more than once and printed its report
C17_Witness ==
    /\ pc = "done"
    /\ output = <<"success">>
    /\ Cardinality(DOMAIN symbolTable) >= 2
    /\ Len(tokens) >= 17
    /\ tokenPos + 1 = Len(tokens)

---------------------------------------------------------------------------
(* Claims on the declaration groups *)

\* the index of the first name of ns, from its k-th on, that is in seen or
\* earlier in ns; 0 if none
RECURSIVE RepeatedAt(_, _, _)
RepeatedAt(ns, k, seen) ==
    IF k > Len(ns) THEN 0
    ELSE IF ns[k] \in seen THEN k
    ELSE RepeatedAt(ns, k + 1, seen \cup {ns[k]})

\* the type name a type keyword stands for
TypeName(type) ==
    IF type = "KEYWORD_INTEGER" THEN kw_integer
    ELSE IF type = "KEYWORD_LONGINT" THEN kw_longint
    ELSE kw_bool

\* C18: a declaration never changes the type of a name already in the symbol
\* table; when the list of a group  ident {, ident} : type  holds a name that
\* is already in the table (from an earlier group or earlier in the list),
\* exactly the names before it are inserted, with the type of the group, and
\* the run stops with the diagnostic for that name; with no such name all the
\* names of the list are inserted.
C18_InsertionStopsAtRepeatedName ==
    [][ pc = "definition" =>
          /\ \A n \in DOMAIN symbolTable :
                n \in DOMAIN symbolTable' /\ symbolTable'[n] = symbolTable[n]
          /\ LET ns == GroupNames(tokens, tokenPos, <<>>)
                 r == RepeatedAt(ns, 1, DOMAIN symbolTable)
                 kept == IF r = 0 THEN ns ELSE SubSeq(ns, 1, r - 1)
                 type == TypeName(tokens[tokenPos + 2 * Len(ns) + 1].type)
             IN  (InDefinitionLoop(tokens, tokenPos) /\ ns # <<>>)
                   => /\ DOMAIN symbolTable' = DOMAIN symbolTable \cup Range(kept)
                      /\ \A k \in DOMAIN kept :
                            kept[k] \notin DOMAIN symbolTable => symbolTable'[kept[k]] = type
                      /\ r > 0 => StopsWith(Diag("Repeated definition of variable: ", ns[r])) ]_vars

\* k : Bool ; j , i , k : longint ;  -- j and i are inserted as longint, the
\* repeated k keeps bool
C18_Witness ==
    /\ pc = "done"
    /\ errors = <<Diag("Repeated definition of variable: ", w_k)>>
    /\ DOMAIN symbolTable = {w_i, w_j, w_k}
    /\ symbolTable[w_k] = kw_bool
    /\ symbolTable[w_j] = kw_longint
    /\ symbolTable[w_i] = kw_longint

\* the end of a list  {, ident}  that follows an identifier, from p on; not ok
\* at a comma that no identifier follows
RECURSIVE ListScan(_, _)
ListScan(toks, p) ==
    IF ~TypeIs(toks, p, "DELIMITER_COMMA") THEN [ok |-> TRUE, pos |-> p]
    ELSE IF TypeIs(toks, p + 1, "IDENTIFIER") THEN ListScan(toks, p + 2)
    ELSE [ok |-> FALSE, pos |-> p + 1]

\* C19: a declaration group is accepted only in the shape
\* identifier {, identifier} : type ;  -- an error token at its start stops
\* with the diagnostic for an invalid identifier (line 232), any other token
\* that is no identifier stops the run, a comma with no identifier after it
\* stops with "expected identifier after comma", two identifiers in a row with
\* "missing comma between identifiers", and a missing colon, an unknown type
\* and a missing `;` each with its own diagnostic; a group of that shape with
\* no repeated name is stepped over with no diagnostic.
C19_DeclarationGroupShape ==
    [][ (pc = "definition" /\ InDefinitionLoop(tokens, tokenPos)) =>
          LET first == tokens[tokenPos + 1]
              l == ListScan(tokens, tokenPos + 1)
              ns == GroupNames(tokens, tokenPos, <<>>)
          IN  IF first.type = "ERROR"
              THEN StopsWith(Diag("Invalid keyword: ", first.value))
              ELSE IF first.type # "IDENTIFIER"
              THEN pc' = "report" /\ Len(errors') = 1
              ELSE IF ~l.ok
              THEN StopsWith(Diag("Expected identifier after comma", <<>>))
              ELSE IF TypeIs(tokens, l.pos, "IDENTIFIER")
              THEN StopsWith(Diag("Missing comma between identifiers", <<>>))
              ELSE IF ~TypeIs(tokens, l.pos, "DELIMITER_COLON")
              THEN StopsWith(Diag("Missing ':' after variable(s)", <<>>))
              ELSE IF l.pos + 1 >= Len(tokens)
              THEN StopsWith(Diag("Expected type (integer, longint, bool), found: ", none))
              ELSE IF tokens[l.pos + 2].type \notin TypeTokens
              THEN StopsWith(Diag("Expected type (integer, longint, bool), found: ",
                                  tokens[l.pos + 2].value))
              ELSE IF RepeatedAt(ns, 1, DOMAIN symbolTable) > 0
              THEN pc' = "report" /\ Len(errors') = 1
              ELSE IF ~TypeIs(tokens, l.pos + 2, "DELIMITER_SEMICOLON")
              THEN StopsWith(Diag("Missing ';' after variable declaration", <<>>))
              ELSE /\ errors' = <<>>
                   /\ pc' = "definition"
                   /\ tokenPos' = l.pos + 3 ]_vars

\* after a group of three names went through, a run stopped at a comma
\* followed by an error token
C19_Witness ==
    /\ pc = "done"
    /\ Cardinality(DOMAIN symbolTable) = 3
    /\ errors = <<Diag("Expected identifier after comma", <<>>)>>
    /\ tokenPos < Len(tokens)
    /\ tokens[tokenPos + 1].type = "ERROR"
    /\ tokens[tokenPos].type = "DELIMITER_COMMA"

---------------------------------------------------------------------------
(* Claims on the whole run *)

\* what reportErrors prints for a list of diagnostics
Report(errs) == IF errs = <<>> THEN <<"success">> ELSE <<"errors">> \o errs

\* C20: the result does not depend on any token after the `end` that stops
\* the statement loop: when the loop stops at an `end`, the run ends with the
\* diagnostics and the symbol table of analyze applied to the tokens up to and
\* including that `end`, and the report prints exactly these diagnostics; so
\* all inputs that agree up to that `end` have the same report.
C20_NothingAfterEndMatters ==
    [][ /\ (pc = "realization" /\ TypeIs(tokens, tokenPos, "KEYWORD_END"))
              => LET cut == analyze(SubSeq(tokens, 1, tokenPos + 1))
                 IN  /\ errors' = cut.errors
                     /\ symbolTable' = cut.symbolTable
                     /\ pc' = "report"
        /\ pc = "report" => (output' = Report(errors) /\ errors' = errors) ]_vars

\* a program that reports success with an error token after its `end`
C20_Witness ==
    /\ pc = "done"
    /\ output = <<"success">>
    /\ TypeIs(tokens, tokenPos, "KEYWORD_END")
    /\ tokenPos >= 12
    /\ \E k \in (tokenPos + 2)..Len(tokens) : tokens[k].type = "ERROR"

\* C21: the structural validator leaves the symbol table alone: from the step
\* over `begin` to the report the table is the one the declaration validator
\* built from the tokens after `var`, and no step changes it.
C21_SymbolTableReadOnlyInBody ==
    [][ /\ pc = "realization"
              => /\ symbolTable = parseDefinitionBody(tokens, 1, EmptyTable, <<>>).symbolTable
                 /\ symbolTable' = symbolTable
        /\ pc = "report" => symbolTable' = symbolTable ]_vars

\* a run through two assignments that stopped at a name that was never
\* declared: the look-up did not add it
C21_Witness ==
    /\ pc = "done"
    /\ tokenPos >= 16
    /\ tokenPos < Len(tokens)
    /\ tokens[tokenPos + 1].type = "IDENTIFIER"
    /\ tokens[tokenPos + 1].value \notin DOMAIN symbolTable
    /\ Cardinality(DOMAIN symbolTable) = 2
    /\ errors = <<Diag("Undefined variable: ", tokens[tokenPos + 1].value)>>

\* C22: keywords and type names are matched without regard to letter case and
\* every token keeps the lexeme of the source: each token the scan emits has
\* the slice of the source it stepped over as its lexeme and is a keyword
\* token, of the type of its lower-cased lexeme, exactly if that lower-cased
\* lexeme is a keyword; the table binds names to lower-case type names.  Identifier
\* names are compared as written: an identifier at statement position that is
\* not itself a key of the table is reported as undefined, and a group whose
\* names are, as written, neither in the table nor repeated in the list is
\* declared without a repeated-definition diagnostic.
C22_CaseOfKeywordsAndNames ==
    [][ /\ tokens' # tokens
              => LET t == tokens'[Len(tokens')]
                 IN  /\ tokens' = Append(tokens, t)
                     /\ t.value = SubSeq(source, pos' - Len(t.value) + 1, pos')
                     /\ (toLower(t.value) \in keywords)
                           <=> (t.type \in {getKeywordType(w) : w \in keywords})
                     /\ toLower(t.value) \in keywords
                           => t.type = getKeywordType(toLower(t.value))
        /\ \A n \in DOMAIN symbolTable' : symbolTable'[n] \in types
        /\ (AtAssignment /\ tokens[tokenPos + 1].value \notin DOMAIN symbolTable)
              => StopsWith(Diag("Undefined variable: ", tokens[tokenPos + 1].value))
        /\ LET ns == GroupNames(tokens, tokenPos, <<>>)
           IN  (/\ pc = "definition"
                /\ InDefinitionLoop(tokens, tokenPos)
                /\ ns # <<>>
                /\ RepeatedAt(ns, 1, DOMAIN symbolTable) = 0)
                 => /\ Range(ns) \subseteq DOMAIN symbolTable'
                    /\ \A k \in DOMAIN errors' :
                          errors'[k].msg # "Repeated definition of variable: " ]_vars

\* i declared with the type written Bool, I used in the body
C22_Witness ==
    /\ pc = "done"
    /\ tokens # <<>>
    /\ tokens[1] = Token("KEYWORD_VAR", w_Var)
    /\ DOMAIN symbolTable = {w_i}
    /\ symbolTable[w_i] = kw_bool
    /\ \E k \in DOMAIN tokens : tokens[k] = Token("KEYWORD_BOOL", w_Bool)
    /\ errors = <<Diag("Undefined variable: ", w_I)>>

===========================================================================
